---- MODULE Spec2Model ----
(***************************************************************************)
(* A model of gnorm's postgres schema introspection (parse and its query   *)
(* helpers), of the per-file generation step (genFile), of the copy of     *)
(* static assets (copyStaticFiles) and of the commands gen, preview and    *)
(* init.                                                                   *)
(*                                                                         *)
(* parse is modelled pass by pass: every action is one query together with *)
(* the loop that folds its rows into the maps `schemas` / `indexes`; the   *)
(* last action assembles the returned *database.Info.  Query results are   *)
(* drawn from small row domains.  Go map iteration order is unspecified,   *)
(* so every `range` over a map is a nondeterministic choice of order.      *)
(***************************************************************************)
EXTENDS Integers, Sequences, FiniteSets, TLC

\* ------------------------------------------------------------------ bounds
\* At most MaxRows rows per query result, at most MaxTotal rows per run.
MaxRows == 2
MaxTotal == MaxRows + 2

\* ------------------------------------------------------------------ names
NoErr == "nil"
\* the nil *database.Info
NilInfo == [nil |-> TRUE]

SchemaDom == {"public", "app"}
TableDom == {"users", "orders"}
ColumnDom == {"id", "name"}
IndexDom == {"i1", "i2"}


\* filterTables, as the set of (schema, table) pairs it answers true for:
\* no filter at all, or IncludeTables = {public: [users], app: [users]}.
\* "s" and "rs" are what trimming an unqualified table name leaves.
AllTables == SchemaDom \X (TableDom \cup {"s", "rs"})
OnlyUsers == {<<"public", "users">>, <<"app", "users">>}

\* The arguments of Parse: both schemas and every table, or schema public
\* alone and the tables named users.
Configs ==
    {[schemaNames |-> <<"app", "public">>, filter |-> AllTables],
     [schemaNames |-> <<"public">>, filter |-> OnlyUsers]}

Range(f) == {f[i] : i \in DOMAIN f}

SeqsUpTo(S, n) == UNION {[1..k -> S] : k \in 0..n}

Min(a, b) == IF a < b THEN a ELSE b

\* ------------------------------------------------------------------ rows
\* The rows a query may deliver.  Schema "app" has the one table users with
\* the one column id; schema "public" has both tables and both columns.
Known ==
    {<<"public", t, c>> : t \in TableDom, c \in ColumnDom} \cup {<<"app", "users", "id">>}

TableRows == {[TableSchema |-> k[1], TableName |-> k[2]] : k \in Known}

\* Column id is an integer with a default, column name a nullable text[].
ColumnRows ==
    {[TableSchema |-> k[1], TableName |-> k[2], ColumnName |-> k[3],
      DataType |-> IF k[3] = "id" THEN "integer" ELSE "ARRAY",
      UdtName |-> IF k[3] = "id" THEN "int4" ELSE "_text",
      IsNullable |-> IF k[3] = "id" THEN "NO" ELSE "YES",
      ColumnDefault |-> IF k[3] = "id" THEN "nextval" ELSE "",
      CharacterMaximumLength |-> 0] : k \in Known}

PrimaryKeyRows ==
    {[SchemaName |-> k[1], TableName |-> k[2], ColumnName |-> k[3], Name |-> "pk"] : k \in Known}

\* A foreign key of column name, or of app.users.id, onto column id of a table
\* of the same schema.
ForeignKeyRows ==
    {[SchemaName |-> k[1], TableName |-> k[2], ColumnName |-> k[3], Name |-> "fk",
      ForeignTableName |-> ft, ForeignColumnName |-> "id"] :
        k \in {x \in Known : x[3] = "name" \/ x[1] = "app"}, ft \in TableDom}

\* One row of queryIndexes before the table name is trimmed: TableName is the
\* text of indrelid::regclass, cs the comma-joined column list, kept as the
\* sequence of its comma-separated fields.
IndexColumnLists == {<<"id">>, <<"id", "id">>, <<"id", "name">>}

RawIndexRows ==
    [SchemaName : {"public"}, TableName : {"users"}, IndexName : IndexDom,
     cs : IndexColumnLists]
    \cup [SchemaName : {"public"}, TableName : {"orders"}, IndexName : {"i1"},
          cs : {<<"id">>}]
    \cup [SchemaName : {"app"}, TableName : {"app.users", "users"}, IndexName : {"i1"},
          cs : {<<"id">>}]

\* One enum of queryEnums with the values queryValues found for it.
EnumRows == [schema : {"public"}, name : {"color"}, vals : {<<"red">>}]

\* ------------------------------------------------------------------ helpers
MapPut(m, k, v) == [x \in DOMAIN m \cup {k} |-> IF x = k THEN v ELSE m[x]]

\* filterTables(schema, table)
filterTables(flt, schema, table) == <<schema, table>> \in flt

\* text[n:] of Go, for the texts of the row domains: a regclass text cut after
\* len("app") + 1 bytes, and the udt name of an array cut after its underscore.
GoSliceFrom(text, n) ==
    CASE text = "_text" /\ n = 1 -> "text"
      [] text = "app.users" /\ n = 4 -> "users"
      [] text = "app.orders" /\ n = 4 -> "orders"
      [] text = "users" /\ n = 4 -> "s"
      [] text = "orders" /\ n = 4 -> "rs"
      [] OTHER -> text

StrLen(str) == CASE str = "app" -> 3 [] str = "public" -> 6 [] OTHER -> 0

\* strings.Split(cs, ","): cs is kept as its fields, the empty text as <<"">>.
SplitComma(cs) == IF cs = <<>> THEN <<"">> ELSE cs

\* ------------------------------------------------------------------ parse, table pass
\* the nil *database.ForeignKey
NoFK == [Name |-> "nil"]

\* seeding that forgets to ask the filter
seedRowUnfiltered(schemas, flt, t) ==
    IF t.TableSchema \notin DOMAIN schemas THEN schemas
    ELSE [schemas EXCEPT ![t.TableSchema] = MapPut(@, t.TableName, <<>>)]

seedRow(schemas, flt, t) ==
    IF ~filterTables(flt, t.TableSchema, t.TableName) THEN schemas
    ELSE IF t.TableSchema \notin DOMAIN schemas THEN schemas
    ELSE [schemas EXCEPT ![t.TableSchema] = MapPut(@, t.TableName, <<>>)]

RECURSIVE seedTables(_, _, _)
seedTables(schemas, flt, rows) ==
    IF rows = <<>> THEN schemas
    ELSE seedTables(seedRow(schemas, flt, Head(rows)), flt, Tail(rows))

emptySchemas(schemaNames) == [s \in Range(schemaNames) |-> <<>>]

\* ------------------------------------------------------------------ parse, column pass
toDBColumn(c) ==
    [Name |-> c.ColumnName,
     Nullable |-> (c.IsNullable = "YES"),
     HasDefault |-> (c.ColumnDefault # ""),
     Length |-> c.CharacterMaximumLength,
     IsArray |-> (c.DataType = "ARRAY"),
     UserDefined |-> (c.DataType = "USER-DEFINED"),
     Type |-> CASE c.DataType = "ARRAY" -> GoSliceFrom(c.UdtName, 1)
                [] c.DataType = "USER-DEFINED" -> c.UdtName
                [] OTHER -> c.DataType,
     IsPrimaryKey |-> FALSE, IsForeignKey |-> FALSE, ForeignKey |-> NoFK,
     Orig |-> c]

\* a column pass that puts each new column in front
columnRowPrepend(schemas, flt, c) ==
    IF ~filterTables(flt, c.TableSchema, c.TableName) THEN schemas
    ELSE IF c.TableSchema \notin DOMAIN schemas THEN schemas
    ELSE IF c.TableName \notin DOMAIN schemas[c.TableSchema] THEN schemas
    ELSE [schemas EXCEPT ![c.TableSchema][c.TableName] = <<toDBColumn(c)>> \o @]

columnRow(schemas, flt, c) ==
    IF ~filterTables(flt, c.TableSchema, c.TableName) THEN schemas
    ELSE IF c.TableSchema \notin DOMAIN schemas THEN schemas
    ELSE IF c.TableName \notin DOMAIN schemas[c.TableSchema] THEN schemas
    ELSE [schemas EXCEPT ![c.TableSchema][c.TableName] = Append(@, toDBColumn(c))]

RECURSIVE attachColumns(_, _, _)
attachColumns(schemas, flt, rows) ==
    IF rows = <<>> THEN schemas
    ELSE attachColumns(columnRow(schemas, flt, Head(rows)), flt, Tail(rows))

\* ------------------------------------------------------------------ parse, primary keys
\* marking that forgets to compare the column name
markPrimaryKeyAnyColumn(table, pk) ==
    [i \in DOMAIN table |-> [table[i] EXCEPT !.IsPrimaryKey = TRUE]]

markPrimaryKey(table, pk) ==
    [i \in DOMAIN table |->
        IF pk.ColumnName # table[i].Name THEN table[i]
        ELSE [table[i] EXCEPT !.IsPrimaryKey = TRUE]]

primaryKeyRow(schemas, flt, pk) ==
    IF ~filterTables(flt, pk.SchemaName, pk.TableName) THEN schemas
    ELSE IF pk.SchemaName \notin DOMAIN schemas THEN schemas
    ELSE IF pk.TableName \notin DOMAIN schemas[pk.SchemaName] THEN schemas
    ELSE [schemas EXCEPT ![pk.SchemaName][pk.TableName] = markPrimaryKey(@, pk)]

RECURSIVE markPrimaryKeys(_, _, _)
markPrimaryKeys(schemas, flt, rows) ==
    IF rows = <<>> THEN schemas
    ELSE markPrimaryKeys(primaryKeyRow(schemas, flt, Head(rows)), flt, Tail(rows))

\* ------------------------------------------------------------------ parse, foreign keys
markForeignKey(table, fk) ==
    [i \in DOMAIN table |->
        IF fk.ColumnName # table[i].Name THEN table[i]
        ELSE [table[i] EXCEPT !.IsForeignKey = TRUE, !.ForeignKey = fk]]

foreignKeyRow(schemas, flt, fk) ==
    IF ~filterTables(flt, fk.SchemaName, fk.TableName) THEN schemas
    ELSE IF fk.SchemaName \notin DOMAIN schemas THEN schemas
    ELSE IF fk.TableName \notin DOMAIN schemas[fk.SchemaName] THEN schemas
    ELSE [schemas EXCEPT ![fk.SchemaName][fk.TableName] = markForeignKey(@, fk)]

RECURSIVE markForeignKeys(_, _, _)
markForeignKeys(schemas, flt, rows) ==
    IF rows = <<>> THEN schemas
    ELSE markForeignKeys(foreignKeyRow(schemas, flt, Head(rows)), flt, Tail(rows))

\* ------------------------------------------------------------------ parse, indexes
\* columnMap[c.Name] = c over the table's columns: a later column of the same
\* name replaces an earlier one.  Columns are pointers in the code; here a
\* pointer is the column's position in its table.
columnMap(table) ==
    [n \in {table[i].Name : i \in DOMAIN table} |->
        CHOOSE i \in DOMAIN table :
            /\ table[i].Name = n
            /\ \A j \in DOMAIN table : table[j].Name = n => j <= i]

\* The inner loop over r.Columns: the columns resolved so far, or "unknown"
\* as soon as one name is not in columnMap (continue outer).
RECURSIVE resolveColumns(_, _, _)
resolveColumns(cmap, names, acc) ==
    IF names = <<>> THEN acc
    ELSE IF Head(names) \notin DOMAIN cmap THEN "unknown"
    ELSE resolveColumns(cmap, Tail(names), Append(acc, cmap[Head(names)]))

MapGet(m, k, dflt) == IF k \in DOMAIN m THEN m[k] ELSE dflt

indexRow(indexes, schemas, flt, r) ==
    IF ~filterTables(flt, r.SchemaName, r.TableName) THEN indexes
    ELSE IF r.SchemaName \notin DOMAIN schemas THEN indexes
    ELSE IF r.TableName \notin DOMAIN schemas[r.SchemaName] THEN indexes
    ELSE LET table == schemas[r.SchemaName][r.TableName]
             columns == resolveColumns(columnMap(table), r.Columns, <<>>)
         IN IF columns = "unknown" THEN indexes
            ELSE LET schemaIndex == MapGet(indexes, r.SchemaName, <<>>)
                     tableIndex == MapGet(schemaIndex, r.TableName, <<>>)
                     entry == MapGet(tableIndex, r.IndexName, <<>>) \o columns
                 IN MapPut(indexes, r.SchemaName,
                        MapPut(schemaIndex, r.TableName,
                            MapPut(tableIndex, r.IndexName, entry)))

RECURSIVE attachIndexes(_, _, _, _)
attachIndexes(indexes, schemas, flt, rows) ==
    IF rows = <<>> THEN indexes
    ELSE attachIndexes(indexRow(indexes, schemas, flt, Head(rows)), schemas, flt, Tail(rows))

\* ------------------------------------------------------------------ parse, assembly
\* The orders in which a `range` over a map with key set S may visit it.
Perms(S) == {f \in [1..Cardinality(S) -> S] : \A i, j \in DOMAIN f : f[i] = f[j] => i = j}

\* The orders in which `range index` may visit the indexes of one table.
IndexOrders(indexes, s, t) ==
    IF s \in DOMAIN indexes /\ t \in DOMAIN indexes[s]
    THEN Perms(DOMAIN indexes[s][t]) ELSE {<<>>}

dbIndex(schemas, indexes, s, t, iname) ==
    [Name |-> iname,
     Columns |-> [k \in DOMAIN indexes[s][t][iname] |-> schemas[s][t][indexes[s][t][iname][k]]]]

dbTable(schemas, indexes, s, t, iord) ==
    [Name |-> t, Columns |-> schemas[s][t],
     Indexes |-> [k \in DOMAIN iord |-> dbIndex(schemas, indexes, s, t, iord[k])]]

\* An assembly that leaves out the tables no column was found for.
dbSchemasWithColumns(schemas, indexes, enums, s) ==
    LET T == {t \in DOMAIN schemas[s] : schemas[s][t] # <<>>}
        AllOrders == UNION {IndexOrders(indexes, s, t) : t \in T}
        IOrds == {f \in [T -> AllOrders] : \A t \in T : f[t] \in IndexOrders(indexes, s, t)}
    IN {[Name |-> s,
         Enums |-> MapGet(enums, s, <<>>),
         Tables |-> [k \in DOMAIN tord |-> dbTable(schemas, indexes, s, tord[k], iord[tord[k]])]]
        : tord \in Perms(T), iord \in IOrds}

\* Every database.Schema the loop body of lines 215-237 can build for s.
dbSchemas(schemas, indexes, enums, s) ==
    LET T == DOMAIN schemas[s]
        AllOrders == UNION {IndexOrders(indexes, s, t) : t \in T}
        IOrds == {f \in [T -> AllOrders] : \A t \in T : f[t] \in IndexOrders(indexes, s, t)}
    IN {[Name |-> s,
         Enums |-> MapGet(enums, s, <<>>),
         Tables |-> [k \in DOMAIN tord |-> dbTable(schemas, indexes, s, tord[k], iord[tord[k]])]]
        : tord \in Perms(T), iord \in IOrds}

\* Every *database.Info parse can return for the maps built by the passes.
assemble(schemaNames, schemas, indexes, enums) ==
    LET S == Range(schemaNames)
        All == UNION {dbSchemas(schemas, indexes, enums, s) : s \in S}
        Pick == {f \in [S -> All] : \A s \in S : f[s] \in dbSchemas(schemas, indexes, enums, s)}
    IN {[Schemas |-> [k \in DOMAIN schemaNames |-> f[schemaNames[k]]]] : f \in Pick}

\* ------------------------------------------------------------------ the queries
\* A query is drawn as the rows the driver delivers and the way it ends:
\*   "none"  all rows delivered,
\*   "query" db.Query itself fails,
\*   "scan"  rows.Scan fails on a row,
\*   "iter"  the driver fails in the middle of the rows: rows.Next answers
\*           false after the rows delivered and rows.Err() is non-nil.
\* A query function answers [rows, err, panic].
Kinds == {"none", "query", "scan", "iter"}

Answer(rows, err) == [rows |-> rows, err |-> err, panic |-> FALSE]

\* tables.Query and columns.Query (generated code): every failure is returned.
generatedQuery(rows, kind) ==
    IF kind = "none" THEN Answer(rows, NoErr) ELSE Answer(<<>>, "query failed")

queryPrimaryKeys(rows, kind) ==
    CASE kind = "query" -> Answer(<<>>, "error querying keys")
      [] kind = "scan" -> Answer(<<>>, "error scanning key constraint")
      [] OTHER -> Answer(rows, NoErr)

queryForeignKeys(rows, kind) ==
    CASE kind = "query" -> Answer(<<>>, "error querying foreign keys")
      [] kind = "scan" -> Answer(<<>>, "error scanning foreign key constraint")
      [] kind = "iter" -> Answer(<<>>, "error reading foreign keys")
      [] OTHER -> Answer(rows, NoErr)

\* queryEnums with queryValues: "vquery", "vscan", "viter" are the three ways
\* the values query of an enum can end badly.
EnumKinds == Kinds \cup {"vquery", "vscan", "viter"}

enumMap(rows) ==
    [s \in {rows[i].schema : i \in DOMAIN rows} |->
        LET RECURSIVE collect(_)
            collect(rs) ==
                IF rs = <<>> THEN <<>>
                ELSE IF Head(rs).schema = s
                     THEN <<[Name |-> Head(rs).name, Values |-> Head(rs).vals]>> \o collect(Tail(rs))
                     ELSE collect(Tail(rs))
        IN collect(rows)]

queryEnums(rows, kind) ==
    CASE kind = "query" -> Answer(<<>>, "error querying enum names")
      [] kind = "scan" -> Answer(<<>>, "error scanning enum name into string")
      [] kind = "iter" -> Answer(<<>>, "error reading enum names")
      [] kind = "vquery" -> Answer(<<>>, "failed to query enum values")
      [] kind = "vscan" -> Answer(<<>>, "failed reading enum values")
      [] OTHER -> Answer(enumMap(rows), NoErr)

indexResult(raw) ==
    [SchemaName |-> raw.SchemaName,
     TableName |-> IF raw.SchemaName # "public"
                   THEN GoSliceFrom(raw.TableName, StrLen(raw.SchemaName) + 1)
                   ELSE raw.TableName,
     IndexName |-> raw.IndexName,
     Columns |-> SplitComma(raw.cs)]

\* db.Query failing leaves rows nil, and the deferred rows.Close() runs before
\* the error is looked at: a nil pointer dereference.
queryIndexes(rows, kind) ==
    CASE kind = "query" -> [rows |-> <<>>, err |-> NoErr, panic |-> TRUE]
      [] kind = "scan" -> Answer(<<>>, "error scanning index")
      [] OTHER -> Answer([i \in DOMAIN rows |-> indexResult(rows[i])], NoErr)

\* ------------------------------------------------------------------ state
VARIABLES
    pc,            \* where parse stands: the next query, "done" or "panic"
    schemaNames,   \* argument of Parse
    flt,           \* argument filterTables
    tables,        \* result of tables.Query
    columns,       \* result of columns.Query
    primaryKeys,   \* result of queryPrimaryKeys
    foreignKeys,   \* result of queryForeignKeys
    enums,         \* result of queryEnums
    indexResults,  \* result of queryIndexes
    inject,        \* whether the database of this run may fail
    faults,        \* the queries that ended badly, as <<query, kind>>
    schemas,       \* map schema -> table -> columns
    indexes,       \* map schema -> table -> index -> columns
    res,           \* returned *database.Info, NilInfo if none
    err,           \* returned error, NoErr if none
    res2           \* what a second Parse on the same query results returned

parseVars ==
    <<pc, schemaNames, flt, tables, columns, primaryKeys, foreignKeys, enums,
      indexResults, inject, faults, schemas, indexes, res, err, res2>>

\* The generation engine: one generation unit at a time.
VARIABLES
    fs,        \* the filesystem: path -> content, NoFile where nothing exists
    fsBefore,  \* the filesystem as the current unit found it
    ustate,    \* state of the current unit
    upath,     \* its destination path, once the filename template has rendered
    ubuf,      \* its rendered contents, once the contents template has rendered
    generr,    \* the error the unit reported, NoErr if none
    postrun,   \* whether a post-run command is configured
    units      \* units begun so far

genVars == <<fs, fsBefore, ustate, upath, ubuf, generr, postrun, units>>

\* copyStaticFiles: one walk of a source tree.
VARIABLES
    source,    \* the source tree: relative path -> kind of the entry there
    dest,      \* the destination tree, likewise
    todo,      \* the entries of the source tree the walk has not visited yet
    cstate,    \* "walking" or "done"
    copyerr    \* the error copyStaticFiles returned, NoErr if none

copyVars == <<source, dest, todo, cstate, copyerr>>

\* The commands gen, preview and init.
VARIABLES
    cmd,        \* the command that runs
    cpc,        \* where its RunE stands
    ret,        \* what RunE returned: NoRet while it runs, NilRet, or a codeErr
    calls,      \* the calls RunE has made so far, each with the error it got
    cwd,        \* the working directory: file name -> content, NoFile if none
    cwdBefore   \* the working directory as the command found it

cliVars == <<cmd, cpc, ret, calls, cwd, cwdBefore>>

vars == <<parseVars, genVars, copyVars, cliVars>>

\* everything but the variables of parse, of the engine, of the copy, of the
\* commands
notParse == <<genVars, copyVars, cliVars>>
notGen == <<parseVars, copyVars, cliVars>>
notCopy == <<parseVars, genVars, cliVars>>
notCli == <<parseVars, genVars, copyVars>>

\* The rows delivered so far.
Used ==
    Len(tables) + Len(columns) + Len(primaryKeys) + Len(foreignKeys)
        + Cardinality(DOMAIN enums) + Len(indexResults)

Results(Dom) == SeqsUpTo(Dom, Min(MaxRows, MaxTotal - Used))

ParseInit ==
    /\ pc = "open"
    /\ \E c \in Configs : schemaNames = c.schemaNames /\ flt = c.filter
    /\ tables = <<>>
    /\ columns = <<>>
    /\ primaryKeys = <<>>
    /\ foreignKeys = <<>>
    /\ enums = <<>>
    /\ indexResults = <<>>
    /\ inject = FALSE
    /\ faults = {}
    /\ schemas = <<>>
    /\ indexes = <<>>
    /\ res = NilInfo
    /\ err = NoErr
    /\ res2 = NilInfo

\* return nil, err
Fail(e) ==
    /\ pc' = "done"
    /\ res' = NilInfo
    /\ err' = e

Note(query, kind) == IF kind = "none" THEN faults ELSE faults \cup {<<query, kind>>}

\* A query ends badly only on a database that may fail, and at most one query
\* of a run does.
MayEnd(kind) == kind = "none" \/ (inject /\ faults = {})

\* lines 31-35: sql.Open
Open ==
    /\ pc = "open"
    /\ \E ok \in BOOLEAN :
        /\ MayEnd(IF ok THEN "none" ELSE "query")
        /\ IF ok THEN /\ pc' = "tables"
                      /\ faults' = faults
                      /\ UNCHANGED <<res, err>>
           ELSE /\ Fail("open failed")
                /\ faults' = faults \cup {<<"open", "query">>}
    /\ UNCHANGED notParse
    /\ UNCHANGED <<inject, schemaNames, flt, tables, columns, primaryKeys, foreignKeys, enums,
                   indexResults, schemas, indexes, res2>>

\* lines 41-65: the tables query and the seeding of one entry per table
ParseTables ==
    /\ pc = "tables"
    /\ \E rows \in Results(TableRows), kind \in Kinds :
        LET a == generatedQuery(rows, kind) IN
        /\ MayEnd(kind)
        /\ faults' = Note("tables", kind)
        /\ IF a.err # NoErr
           THEN Fail(a.err) /\ UNCHANGED <<tables, schemas>>
           ELSE /\ tables' = a.rows
                /\ schemas' = seedTables(emptySchemas(schemaNames), flt, a.rows)
                /\ pc' = "columns"
                /\ UNCHANGED <<res, err>>
    /\ UNCHANGED notParse
    /\ UNCHANGED <<inject, schemaNames, flt, columns, primaryKeys, foreignKeys, enums,
                   indexResults, indexes, res2>>

\* lines 67-91
ParseColumns ==
    /\ pc = "columns"
    /\ \E rows \in Results(ColumnRows), kind \in Kinds :
        LET a == generatedQuery(rows, kind) IN
        /\ MayEnd(kind)
        /\ faults' = Note("columns", kind)
        /\ IF a.err # NoErr
           THEN Fail(a.err) /\ UNCHANGED <<columns, schemas>>
           ELSE /\ columns' = a.rows
                /\ schemas' = attachColumns(schemas, flt, a.rows)
                /\ pc' = "primaryKeys"
                /\ UNCHANGED <<res, err>>
    /\ UNCHANGED notParse
    /\ UNCHANGED <<inject, schemaNames, flt, tables, primaryKeys, foreignKeys, enums,
                   indexResults, indexes, res2>>

\* lines 93-121
ParsePrimaryKeys ==
    /\ pc = "primaryKeys"
    /\ \E rows \in Results(PrimaryKeyRows), kind \in Kinds :
        LET a == queryPrimaryKeys(rows, kind) IN
        /\ MayEnd(kind)
        /\ faults' = Note("primaryKeys", kind)
        /\ IF a.err # NoErr
           THEN Fail(a.err) /\ UNCHANGED <<primaryKeys, schemas>>
           ELSE /\ primaryKeys' = a.rows
                /\ schemas' = markPrimaryKeys(schemas, flt, a.rows)
                /\ pc' = "foreignKeys"
                /\ UNCHANGED <<res, err>>
    /\ UNCHANGED notParse
    /\ UNCHANGED <<inject, schemaNames, flt, tables, columns, foreignKeys, enums,
                   indexResults, indexes, res2>>

\* lines 123-151
ParseForeignKeys ==
    /\ pc = "foreignKeys"
    /\ \E rows \in Results(ForeignKeyRows), kind \in Kinds :
        LET a == queryForeignKeys(rows, kind) IN
        /\ MayEnd(kind)
        /\ faults' = Note("foreignKeys", kind)
        /\ IF a.err # NoErr
           THEN Fail(a.err) /\ UNCHANGED <<foreignKeys, schemas>>
           ELSE /\ foreignKeys' = a.rows
                /\ schemas' = markForeignKeys(schemas, flt, a.rows)
                /\ pc' = "enums"
                /\ UNCHANGED <<res, err>>
    /\ UNCHANGED notParse
    /\ UNCHANGED <<inject, schemaNames, flt, tables, columns, primaryKeys, enums,
                   indexResults, indexes, res2>>

\* lines 153-157
ParseEnums ==
    /\ pc = "enums"
    /\ \E rows \in Results(EnumRows), kind \in EnumKinds :
        LET a == queryEnums(rows, kind) IN
        /\ kind \in {"vquery", "vscan", "viter"} => rows # <<>>
        /\ MayEnd(kind)
        /\ faults' = Note("enums", kind)
        /\ IF a.err # NoErr
           THEN Fail(a.err) /\ UNCHANGED enums
           ELSE /\ enums' = a.rows
                /\ pc' = "indexes"
                /\ UNCHANGED <<res, err>>
    /\ UNCHANGED notParse
    /\ UNCHANGED <<inject, schemaNames, flt, tables, columns, primaryKeys, foreignKeys,
                   indexResults, schemas, indexes, res2>>

\* lines 159-239: the index query, the index loop, and the assembly of the
\* returned Info
ParseIndexes ==
    /\ pc = "indexes"
    /\ \E rows \in Results(RawIndexRows), kind \in Kinds :
        LET a == queryIndexes(rows, kind) IN
        /\ MayEnd(kind)
        /\ faults' = Note("indexes", kind)
        /\ IF a.panic
           THEN /\ pc' = "panic"
                /\ UNCHANGED <<indexResults, indexes, res, err>>
           ELSE IF a.err # NoErr
           THEN Fail(a.err) /\ UNCHANGED <<indexResults, indexes>>
           ELSE /\ indexResults' = a.rows
                /\ indexes' = attachIndexes(<<>>, schemas, flt, a.rows)
                /\ res' \in assemble(schemaNames, schemas, indexes', enums)
                /\ err' = NoErr
                /\ pc' = "done"
    /\ UNCHANGED notParse
    /\ UNCHANGED <<inject, schemaNames, flt, tables, columns, primaryKeys, foreignKeys, enums,
                   schemas, res2>>

\* The maps parse builds from given query results (lines 48-212).
parseSchemas(names, f, ts, cs, pks, fks) ==
    markForeignKeys(
        markPrimaryKeys(
            attachColumns(seedTables(emptySchemas(names), f, ts), f, cs), f, pks), f, fks)

\* Parse called once more on the same database: every query answers what it
\* answered the first time.
ParseAgain ==
    /\ pc = "done"
    /\ res # NilInfo
    /\ res2 = NilInfo
    /\ faults = {}
    /\ LET sch == parseSchemas(schemaNames, flt, tables, columns, primaryKeys, foreignKeys)
           idx == attachIndexes(<<>>, sch, flt, indexResults)
       IN res2' \in assemble(schemaNames, sch, idx, enums)
    /\ UNCHANGED notParse
    /\ UNCHANGED <<pc, inject, schemaNames, flt, tables, columns, primaryKeys, foreignKeys, enums,
                   indexResults, faults, schemas, indexes, res, err>>

ParseNext ==
    \/ Open
    \/ ParseTables
    \/ ParseColumns
    \/ ParsePrimaryKeys
    \/ ParseForeignKeys
    \/ ParseEnums
    \/ ParseIndexes
    \/ ParseAgain

\* parse is not running
ParseOff ==
    /\ pc = "off"
    /\ schemaNames = <<>>
    /\ flt = {}
    /\ tables = <<>>
    /\ columns = <<>>
    /\ primaryKeys = <<>>
    /\ foreignKeys = <<>>
    /\ enums = <<>>
    /\ indexResults = <<>>
    /\ inject = FALSE
    /\ faults = {}
    /\ schemas = <<>>
    /\ indexes = <<>>
    /\ res = NilInfo
    /\ err = NoErr
    /\ res2 = NilInfo

\* ------------------------------------------------------------------ generation
MaxUnits == 2

NoFile == "<no file>"
NoPath == "<no path>"
NoBuf == "<no buffer>"
Paths == {"testfile.out", "other.out"}
Contents == {"goodbye world", "hello world"}

UnitEnded ==
    ustate \in {"idle", "failed at filename", "failed at contents", "written",
                "post-run done", "post-run failed"}

\* the engine is not running
GenOff ==
    /\ fs = [p \in Paths |-> NoFile]
    /\ fsBefore = fs
    /\ ustate = "off"
    /\ upath = NoPath
    /\ ubuf = NoBuf
    /\ generr = NoErr
    /\ postrun = FALSE
    /\ units = 0

GenInit ==
    /\ fs \in [Paths -> Contents \cup {NoFile}]
    /\ fsBefore = fs
    /\ ustate = "idle"
    /\ upath = NoPath
    /\ ubuf = NoBuf
    /\ generr = NoErr
    /\ postrun \in BOOLEAN
    /\ units = 0

\* the engine turns to the next unit
BeginUnit ==
    /\ UnitEnded
    /\ ustate = "written" => ~postrun
    /\ units < MaxUnits
    /\ units' = units + 1
    /\ ustate' = "pending"
    /\ fsBefore' = fs
    /\ upath' = NoPath
    /\ ubuf' = NoBuf
    /\ generr' = NoErr
    /\ UNCHANGED <<fs, postrun>>
    /\ UNCHANGED notGen

\* step 1: the filename template
RenderFilename ==
    /\ ustate = "pending"
    /\ \/ \E p \in Paths :
            /\ upath' = p
            /\ ustate' = "filename-rendered"
            /\ UNCHANGED generr
       \/ /\ ustate' = "failed at filename"
          /\ generr' = "filename template failed"
          /\ UNCHANGED upath
    /\ UNCHANGED <<fs, fsBefore, ubuf, postrun, units>>
    /\ UNCHANGED notGen

\* A genFile that opens (creates or truncates) the destination first and
\* renders the template straight into it.
renderContentsInPlace(files, path) == [files EXCEPT ![path] = ""]

\* step 2 of genFile: the contents template, rendered into a buffer; the
\* destination is not touched
renderContents(files, path) == files

RenderContents ==
    /\ ustate = "filename-rendered"
    /\ \/ \E c \in Contents :
            /\ ubuf' = c
            /\ ustate' = "contents-rendered"
            /\ generr' = NoErr
       \/ /\ ustate' = "failed at contents"
          /\ generr' = "failed to run contents template"
          /\ UNCHANGED ubuf
    /\ fs' = renderContents(fs, upath)
    /\ UNCHANGED <<fsBefore, upath, postrun, units>>
    /\ UNCHANGED notGen

\* step 3: the buffer replaces the destination wholesale
WriteFile ==
    /\ ustate = "contents-rendered"
    /\ fs' = [fs EXCEPT ![upath] = ubuf]
    /\ ustate' = "written"
    /\ UNCHANGED <<fsBefore, upath, ubuf, generr, postrun, units>>
    /\ UNCHANGED notGen

\* A post-run step that undoes the write when the command fails.
PostRunRollback ==
    /\ ustate = "written"
    /\ postrun
    /\ \/ /\ ustate' = "post-run done"
          /\ UNCHANGED <<fs, generr>>
       \/ /\ ustate' = "post-run failed"
          /\ generr' = "post-run command failed"
          /\ fs' = [fs EXCEPT ![upath] = fsBefore[upath]]
    /\ UNCHANGED <<fsBefore, upath, ubuf, postrun, units>>
    /\ UNCHANGED notGen

\* step 4: the post-run command, if one is configured
PostRun ==
    /\ ustate = "written"
    /\ postrun
    /\ \/ /\ ustate' = "post-run done"
          /\ UNCHANGED generr
       \/ /\ ustate' = "post-run failed"
          /\ generr' = "post-run command failed"
    /\ UNCHANGED <<fs, fsBefore, upath, ubuf, postrun, units>>
    /\ UNCHANGED notGen

GenNext ==
    \/ BeginUnit
    \/ RenderFilename
    \/ RenderContents
    \/ WriteFile
    \/ PostRun

\* ------------------------------------------------------------------ static assets
\* A source tree has at most MaxEntries leaves.
MaxEntries == 3

\* Relative paths, as the sequence of their names: a/c/d.txt is
\* <<"a", "c", "d.txt">>.  The paths a leaf may have: a file name at the top,
\* in a directory, in a directory of a directory, and in a second directory;
\* and each of the directories, which is a leaf when it is empty.
FilePaths == {<<"b.txt">>, <<"a", "b.txt">>, <<"a", "c", "d.txt">>, <<"c", "d.txt">>}
DirPaths == {<<"a">>, <<"a", "c">>, <<"c">>}

\* filepath.Dir
Dir(p) == SubSeq(p, 1, Len(p) - 1)

\* the directories above p, the root <<>> among them
Above(p) == {SubSeq(p, 1, k) : k \in 0..(Len(p) - 1)}

\* What may sit at a leaf: a regular file or a file that is not regular (a
\* symbolic link, a device, a socket) under a file name, an empty directory
\* under a directory name.
EntryKinds(p) == IF p \in DirPaths THEN {"dir"} ELSE {"file", "other"}

LeafSets == {Range(q) : q \in SeqsUpTo(FilePaths \cup DirPaths, MaxEntries)}

\* the tree with the given leaves: every directory above a leaf is in it
Tree(leaves) ==
    [p \in DOMAIN leaves \cup UNION {Above(q) : q \in DOMAIN leaves} \cup {<<>>} |->
        IF p \in DOMAIN leaves THEN leaves[p] ELSE "dir"]

SourceTrees ==
    UNION {{Tree(l) : l \in {f \in [L -> {"file", "other", "dir"}] :
                                \A p \in L : f[p] \in EntryKinds(p)}} : L \in LeafSets}

\* the regular files of a tree, by relative path
RegularFiles(tree) == {p \in DOMAIN tree : tree[p] = "file"}

\* os.MkdirAll(filepath.Dir(path)) and the copy of the file to path
putFile(d, path) ==
    [p \in DOMAIN d \cup Above(path) \cup {path} |->
        IF p = path THEN "file" ELSE IF p \in Above(path) THEN "dir" ELSE d[p]]

\* A copy that drops the directories of the relative path.
copyEntryFlat(d, src, p) ==
    IF src[p] # "file" THEN [dest |-> d, err |-> NoErr]
    ELSE [dest |-> putFile(d, <<p[Len(p)]>>), err |-> NoErr]

\* A copy that takes whatever is not a directory for a regular file.
copyEntryAnyFile(d, src, p) ==
    IF src[p] = "dir" THEN [dest |-> d, err |-> NoErr]
    ELSE [dest |-> putFile(d, p), err |-> NoErr]

\* The walk at entry p of the source tree: a regular file is copied to the
\* same relative path under the destination; a directory and a file that is
\* not regular are no leaf entries of the copy.
copyEntry(d, src, p) ==
    IF src[p] # "file" THEN [dest |-> d, err |-> NoErr]
    ELSE [dest |-> putFile(d, p), err |-> NoErr]

\* no copy is running
CopyOff ==
    /\ source = <<>>
    /\ dest = <<>>
    /\ todo = {}
    /\ cstate = "off"
    /\ copyerr = NoErr

\* copyStaticFiles(source, dest) is called on a source tree and a destination
\* that does not exist yet
CopyInit ==
    /\ source \in SourceTrees
    /\ dest = <<>>
    /\ todo = DOMAIN source
    /\ cstate = "walking"
    /\ copyerr = NoErr

\* The walk visits the next entry, a directory before what is in it; the
\* first error ends the walk, and so does the last entry.
CopyVisit ==
    /\ cstate = "walking"
    /\ \E p \in todo :
        LET r == copyEntry(dest, source, p) IN
        /\ p # <<>> => Dir(p) \notin todo
        /\ dest' = r.dest
        /\ copyerr' = r.err
        /\ todo' = todo \ {p}
        /\ cstate' = IF r.err # NoErr \/ todo' = {} THEN "done" ELSE "walking"
    /\ UNCHANGED source
    /\ UNCHANGED notCopy

CopyNext == CopyVisit

\* ------------------------------------------------------------------ commands
\* RunE has not returned yet / has returned nil
NoRet == [running |-> TRUE]
NilRet == [nil |-> TRUE]

\* codeErr{err, code}
codeErr(e, code) == [error |-> e, code |-> code]

\* the default of the --config flag
cfgFile == "gnorm.toml"

\* the files of init, in the order of lines 97 and 101, and what it writes
InitFiles == <<"gnorm.toml", "table.gotmpl", "schema.gotmpl", "enum.gotmpl">>
initContents(name) == IF name = "gnorm.toml" THEN "sample" ELSE "{{.Name}}"

Call(fn, arg, e) == [fn |-> fn, arg |-> arg, err |-> e]

\* How the system calls of createFile may go: both succeed, os.OpenFile
\* fails, or f.WriteString fails after the file was created.
Outcomes == {"ok", "open fails", "write fails"}

\* A createFile that opens without O_EXCL, with O_TRUNC in its place.
createFileTruncate(files, name, contents, outcome) ==
    IF outcome = "open fails" THEN [files |-> files, err |-> "permission denied"]
    ELSE IF outcome = "write fails"
    THEN [files |-> [files EXCEPT ![name] = ""], err |-> "short write"]
    ELSE [files |-> [files EXCEPT ![name] = contents], err |-> NoErr]

\* createFile(name, contents): O_WRONLY|O_CREATE|O_EXCL fails on a name that
\* exists; a write that fails leaves the new file with what was written of
\* it, here nothing.
createFile(files, name, contents, outcome) ==
    IF files[name] # NoFile THEN [files |-> files, err |-> "file exists"]
    ELSE IF outcome = "open fails" THEN [files |-> files, err |-> "permission denied"]
    ELSE IF outcome = "write fails"
    THEN [files |-> [files EXCEPT ![name] = ""], err |-> "short write"]
    ELSE [files |-> [files EXCEPT ![name] = contents], err |-> NoErr]

\* no command is running
CliOff ==
    /\ cmd = "off"
    /\ cpc = "off"
    /\ ret = NoRet
    /\ calls = <<>>
    /\ cwd = [n \in Range(InitFiles) |-> NoFile]
    /\ cwdBefore = cwd

\* One of the commands starts in a directory that may hold any of the files
\* of init already.
CliInit ==
    /\ cmd \in {"gen", "preview", "init"}
    /\ cpc = IF cmd = "init" THEN "createFile" ELSE "parseFile"
    /\ ret = NoRet
    /\ calls = <<>>
    /\ cwd \in [Range(InitFiles) -> {NoFile, "old"}]
    /\ cwdBefore = cwd

\* A RunE that goes on to the run when the configuration could not be read.
cfgThenRunAnyway(runFn) ==
    \/ /\ cpc = "parseFile"
       /\ \E e \in {NoErr, "bad config"} :
            /\ calls' = Append(calls, Call("parseFile", cfgFile, e))
            /\ cpc' = "run"
            /\ UNCHANGED ret
    \/ /\ cpc = "run"
       /\ \E e \in {NoErr, "run failed"} :
            /\ calls' = Append(calls, Call(runFn, "cfg", e))
            /\ ret' = IF e # NoErr THEN codeErr(e, 1) ELSE NilRet
            /\ cpc' = "returned"

\* RunE of preview and of gen (lines 31-41, 60-70): parseFile, then the run
cfgThenRun(runFn) ==
    \/ /\ cpc = "parseFile"
       /\ \E e \in {NoErr, "bad config"} :
            /\ calls' = Append(calls, Call("parseFile", cfgFile, e))
            /\ IF e # NoErr
               THEN ret' = codeErr(e, 2) /\ cpc' = "returned"
               ELSE UNCHANGED ret /\ cpc' = "run"
    \/ /\ cpc = "run"
       /\ \E e \in {NoErr, "run failed"} :
            /\ calls' = Append(calls, Call(runFn, "cfg", e))
            /\ ret' = IF e # NoErr THEN codeErr(e, 1) ELSE NilRet
            /\ cpc' = "returned"

previewCmd ==
    /\ cmd = "preview"
    /\ cfgThenRun("run.Preview")
    /\ UNCHANGED <<cmd, cwd, cwdBefore>>
    /\ UNCHANGED notCli

genCmd ==
    /\ cmd = "gen"
    /\ cfgThenRun("run.Generate")
    /\ UNCHANGED <<cmd, cwd, cwdBefore>>
    /\ UNCHANGED notCli

\* RunE of init (lines 96-110), one createFile at a time
initCmd ==
    /\ cmd = "init"
    /\ cpc = "createFile"
    /\ \E outcome \in Outcomes :
        LET i == Len(calls) + 1
            name == InitFiles[i]
            r == createFile(cwd, name, initContents(name), outcome)
        IN /\ calls' = Append(calls, Call("createFile", name, r.err))
           /\ cwd' = r.files
           /\ IF r.err # NoErr
              THEN ret' = codeErr(r.err, 1) /\ cpc' = "returned"
              ELSE IF i = Len(InitFiles)
              THEN ret' = NilRet /\ cpc' = "returned"
              ELSE UNCHANGED <<ret, cpc>>
    /\ UNCHANGED <<cmd, cwdBefore>>
    /\ UNCHANGED notCli

CliNext ==
    \/ previewCmd
    \/ genCmd
    \/ initCmd

\* ------------------------------------------------------------------ specifications
Init == ParseInit /\ GenOff /\ CopyOff /\ CliOff

Next == ParseNext

\* Parse against a database every query of which succeeds.
Spec == Init /\ [][Next]_vars

\* Parse against a database one query of which may fail.
FaultInit ==
    /\ pc = "open"
    /\ \E c \in Configs : schemaNames = c.schemaNames /\ flt = c.filter
    /\ tables = <<>>
    /\ columns = <<>>
    /\ primaryKeys = <<>>
    /\ foreignKeys = <<>>
    /\ enums = <<>>
    /\ indexResults = <<>>
    /\ inject = TRUE
    /\ faults = {}
    /\ schemas = <<>>
    /\ indexes = <<>>
    /\ res = NilInfo
    /\ err = NoErr
    /\ res2 = NilInfo
    /\ GenOff
    /\ CopyOff
    /\ CliOff

FaultSpec == FaultInit /\ [][Next]_vars

\* The generation engine on any filesystem.
GenSpecInit == ParseOff /\ GenInit /\ CopyOff /\ CliOff

GenSpec == GenSpecInit /\ [][GenNext]_vars

\* copyStaticFiles on any source tree, on a filesystem that does not fail.
CopySpecInit == ParseOff /\ GenOff /\ CopyInit /\ CliOff

CopySpec == CopySpecInit /\ [][CopyNext]_vars

\* The commands gen, preview and init.
CliSpecInit == ParseOff /\ GenOff /\ CopyOff /\ CliInit

CliSpec == CliSpecInit /\ [][CliNext]_vars

\* ------------------------------------------------------------------ properties
\* C1: if rendering the contents template fails, the destination path is left
\* exactly as it was before the call (same content if a file existed, still
\* no file if none existed) and genFile returns a non-nil error.
C1_FailedContentsKeepsFile ==
    ustate = "failed at contents" =>
        /\ fs[upath] = fsBefore[upath]
        /\ generr # NoErr

\* TestAtomicGenerate: testfile.out holds "goodbye world", the contents
\* template fails, and an earlier unit of the run has written a file.
C1_Witness ==
    /\ ustate = "failed at contents"
    /\ upath = "testfile.out"
    /\ fsBefore[upath] = "goodbye world"
    /\ units = MaxUnits

\* The tables of a returned Info, as <<schema name, Table>> pairs.
InfoTables(info) ==
    UNION {{<<info.Schemas[i].Name, info.Schemas[i].Tables[k]>> :
                k \in DOMAIN info.Schemas[i].Tables} : i \in DOMAIN info.Schemas}

Returned == pc = "done" /\ res # NilInfo

\* C2: a table the filter rejects is in no Schema of the returned model, and
\* nothing is materialized for it: no entry in the column map, no entry in the
\* index map, whatever the queries return for it.
C2_FilteredTablesAbsent ==
    /\ \A s \in DOMAIN schemas : \A t \in DOMAIN schemas[s] : filterTables(flt, s, t)
    /\ \A s \in DOMAIN indexes : \A t \in DOMAIN indexes[s] : filterTables(flt, s, t)
    /\ res # NilInfo => \A st \in InfoTables(res) : filterTables(flt, st[1], st[2].Name)

\* Parse has returned a model with a table in it, and the table, column,
\* primary-key and index queries each delivered a row of a rejected table.
C2_Witness ==
    /\ Returned
    /\ InfoTables(res) # {}
    /\ \E i \in DOMAIN tables : ~filterTables(flt, tables[i].TableSchema, tables[i].TableName)
    /\ \E i \in DOMAIN columns : ~filterTables(flt, columns[i].TableSchema, columns[i].TableName)
    /\ \/ \E i \in DOMAIN primaryKeys :
            ~filterTables(flt, primaryKeys[i].SchemaName, primaryKeys[i].TableName)
       \/ \E i \in DOMAIN indexResults :
            ~filterTables(flt, indexResults[i].SchemaName, indexResults[i].TableName)

\* C3: no column of the returned model carries a foreign key whose referencing
\* table or whose referenced table the filter rejects.
C3_NoForeignKeyToFilteredTable ==
    res # NilInfo =>
        \A i \in DOMAIN foreignKeys :
            LET fk == foreignKeys[i] IN
            (\/ ~filterTables(flt, fk.SchemaName, fk.TableName)
             \/ ~filterTables(flt, fk.SchemaName, fk.ForeignTableName))
            => \A st \in InfoTables(res) : \A k \in DOMAIN st[2].Columns :
                    st[2].Columns[k].ForeignKey # fk

\* C4: every column of the returned model flagged as a foreign key references
\* a table of the model and a column of that table.
C4_NoDanglingForeignKey ==
    res # NilInfo =>
        \A st \in InfoTables(res) : \A k \in DOMAIN st[2].Columns :
            LET c == st[2].Columns[k] IN
            c.IsForeignKey =>
                \E ft \in InfoTables(res) :
                    /\ ft[1] = c.ForeignKey.SchemaName
                    /\ ft[2].Name = c.ForeignKey.ForeignTableName
                    /\ \E j \in DOMAIN ft[2].Columns :
                            ft[2].Columns[j].Name = c.ForeignKey.ForeignColumnName

\* The tables of schema s that the table pass seeds, in the order in which the
\* tables query first delivers them.
RECURSIVE queryOrder(_, _, _)
queryOrder(rows, s, acc) ==
    IF rows = <<>> THEN acc
    ELSE LET t == Head(rows) IN
         IF /\ t.TableSchema = s
            /\ filterTables(flt, s, t.TableName)
            /\ t.TableName \notin Range(acc)
         THEN queryOrder(Tail(rows), s, Append(acc, t.TableName))
         ELSE queryOrder(Tail(rows), s, acc)

\* C5: a second Parse on the same query results returns the same model, and
\* the Tables of every Schema are in the order of the tables query.
C5_SameModelSameOrder ==
    /\ res2 # NilInfo => res2 = res
    /\ res # NilInfo =>
        \A i \in DOMAIN res.Schemas :
            [k \in DOMAIN res.Schemas[i].Tables |-> res.Schemas[i].Tables[k].Name]
                = queryOrder(tables, res.Schemas[i].Name, <<>>)

ColumnNamesOf(table) == {table.Columns[k].Name : k \in DOMAIN table.Columns}

\* C6: when an index row names a column its table does not have, the table's
\* index list holds no Index of that name.
C6_UnresolvableIndexDiscarded ==
    res # NilInfo =>
        \A i \in DOMAIN indexResults :
            LET r == indexResults[i] IN
            \A st \in InfoTables(res) :
                (/\ st[1] = r.SchemaName
                 /\ st[2].Name = r.TableName
                 /\ \E n \in Range(r.Columns) : n \notin ColumnNamesOf(st[2]))
                => \A k \in DOMAIN st[2].Indexes : st[2].Indexes[k].Name # r.IndexName

HasRepeat(seq) == \E a, b \in DOMAIN seq : a # b /\ seq[a] = seq[b]

\* C7: an index row whose column list repeats a column is not recorded: the
\* table's index list holds no Index of that name with a repeated column.
C7_DuplicateColumnIndexOmitted ==
    res # NilInfo =>
        \A i \in DOMAIN indexResults :
            LET r == indexResults[i] IN
            \A st \in InfoTables(res) :
                (/\ st[1] = r.SchemaName
                 /\ st[2].Name = r.TableName
                 /\ HasRepeat(r.Columns))
                => \A k \in DOMAIN st[2].Indexes :
                        st[2].Indexes[k].Name = r.IndexName
                        => ~HasRepeat([j \in DOMAIN st[2].Indexes[k].Columns |->
                                            st[2].Indexes[k].Columns[j].Name])

\* Some primary-key row that the filter lets through names column n of s.t.
InPrimaryKeySet(s, t, n) ==
    \E i \in DOMAIN primaryKeys :
        /\ primaryKeys[i].SchemaName = s
        /\ primaryKeys[i].TableName = t
        /\ primaryKeys[i].ColumnName = n
        /\ filterTables(flt, s, t)

\* C8: a column's IsPrimaryKey is true iff a primary-key row that survives the
\* filter names its (schema, table, column): in the column map at every point
\* of parse (so no pass other than the primary-key pass changes it), in the
\* returned Tables and in the columns of their Indexes.
C8_PrimaryKeyFlagIffInSet ==
    /\ \A s \in DOMAIN schemas : \A t \in DOMAIN schemas[s] : \A k \in DOMAIN schemas[s][t] :
            schemas[s][t][k].IsPrimaryKey <=> InPrimaryKeySet(s, t, schemas[s][t][k].Name)
    /\ res # NilInfo =>
            \A st \in InfoTables(res) :
                /\ \A k \in DOMAIN st[2].Columns :
                        st[2].Columns[k].IsPrimaryKey
                            <=> InPrimaryKeySet(st[1], st[2].Name, st[2].Columns[k].Name)
                /\ \A x \in DOMAIN st[2].Indexes : \A k \in DOMAIN st[2].Indexes[x].Columns :
                        st[2].Indexes[x].Columns[k].IsPrimaryKey
                            <=> InPrimaryKeySet(st[1], st[2].Name,
                                                st[2].Indexes[x].Columns[k].Name)

\* A returned table with a primary-key column, indexed, beside a column that
\* is no primary key.
C8_Witness ==
    /\ Returned
    /\ \E st \in InfoTables(res) :
        /\ \E k \in DOMAIN st[2].Columns : st[2].Columns[k].IsPrimaryKey
        /\ \E k \in DOMAIN st[2].Columns : ~st[2].Columns[k].IsPrimaryKey

\* C9: once a query has failed, Parse has returned a nil model and a non-nil
\* error, and has gone on to no later pass.
C9_FailedQueryAborts ==
    faults # {} => (pc = "done" /\ res = NilInfo /\ err # NoErr)

\* ---- C10
\* Column n of table t of schema s is in the column map sch.
hasTable(sch, s, t) == s \in DOMAIN sch /\ t \in DOMAIN sch[s]

hasColumn(sch, s, t, n) ==
    hasTable(sch, s, t) /\ \E k \in DOMAIN sch[s][t] : sch[s][t][k].Name = n

\* The model built so far when the column rows, and when the key and index
\* rows, are folded in.
Seeded == seedTables(emptySchemas(schemaNames), flt, tables)
WithColumns == attachColumns(Seeded, flt, columns)

ColumnRowResolves(c) == hasTable(Seeded, c.TableSchema, c.TableName)

PrimaryKeyRowResolves(pk) == hasColumn(WithColumns, pk.SchemaName, pk.TableName, pk.ColumnName)

\* the row's own schema, table and column
ForeignKeyRowOwnResolves(fk) ==
    hasColumn(WithColumns, fk.SchemaName, fk.TableName, fk.ColumnName)

\* ... and the table and column it points at
ForeignKeyRowResolves(fk) ==
    /\ ForeignKeyRowOwnResolves(fk)
    /\ hasColumn(WithColumns, fk.SchemaName, fk.ForeignTableName, fk.ForeignColumnName)

IndexRowResolves(r) ==
    /\ hasTable(WithColumns, r.SchemaName, r.TableName)
    /\ \A n \in Range(r.Columns) : hasColumn(WithColumns, r.SchemaName, r.TableName, n)

\* What parse builds and may return when the rows that do not resolve are
\* taken out of the query results; fkRows are the foreign-key rows kept.
SchemasWithout(fkRows) ==
    parseSchemas(schemaNames, flt, tables, SelectSeq(columns, ColumnRowResolves),
                 SelectSeq(primaryKeys, PrimaryKeyRowResolves), fkRows)

IndexesWithout(fkRows) ==
    attachIndexes(<<>>, SchemasWithout(fkRows), flt, SelectSeq(indexResults, IndexRowResolves))

SkippedAsIfAbsent(fkRows) ==
    (pc = "done" /\ faults = {}) =>
        /\ err = NoErr
        /\ res # NilInfo
        /\ schemas = SchemasWithout(fkRows)
        /\ indexes = IndexesWithout(fkRows)
        /\ res \in assemble(schemaNames, SchemasWithout(fkRows), IndexesWithout(fkRows), enums)

\* C10: a column, primary-key, foreign-key or index row that references a
\* schema, table or column that is not in the model built so far is skipped:
\* Parse returns a model and no error, and the model is the one it builds when
\* those rows are absent from the query results.
C10_UnresolvedRowsSkipped ==
    SkippedAsIfAbsent(SelectSeq(foreignKeys, ForeignKeyRowResolves))

\* The same with a foreign-key row judged by its own schema, table and column
\* alone, whatever it points at.
OwnUnresolvedRowsSkipped ==
    SkippedAsIfAbsent(SelectSeq(foreignKeys, ForeignKeyRowOwnResolves))

\* ---- C11
\* The steps one unit may take, as <<state, next state>> pairs.
UnitSteps ==
    {<<"pending", "filename-rendered">>, <<"pending", "failed at filename">>,
     <<"filename-rendered", "contents-rendered">>, <<"filename-rendered", "failed at contents">>,
     <<"contents-rendered", "written">>,
     <<"written", "post-run done">>, <<"written", "post-run failed">>}

Committed == ustate \in {"written", "post-run done", "post-run failed"}

\* C11: within one unit the states follow pending, filename-rendered,
\* contents-rendered, written; the destination changes only in the step from
\* contents-rendered to written, and then to the rendered buffer at the
\* rendered path; a unit that failed at filename or at contents stays failed;
\* and after the write nothing changes the files again, so the previous
\* content is never restored.
C11_WrittenOnlyAfterBothRenders ==
    [][units' = units =>
        /\ ustate' # ustate => <<ustate, ustate'>> \in UnitSteps
        /\ fs' # fs =>
              /\ ustate = "contents-rendered" /\ ustate' = "written"
              /\ upath \in Paths /\ ubuf \in Contents
              /\ fs' = [fs EXCEPT ![upath] = ubuf]
        /\ Committed => fs' = fs /\ fs[upath] = ubuf
    ]_vars

\* The second unit of a run has replaced an existing file by other content and
\* its post-run command has failed; the first unit failed before its write.
C11_Witness ==
    /\ ustate = "post-run failed"
    /\ units = MaxUnits
    /\ fsBefore[upath] \in Contents
    /\ fs[upath] = ubuf
    /\ fs[upath] # fsBefore[upath]

\* ---- C12
\* C12: when copyStaticFiles has returned, it has returned no error and the
\* regular files of the destination are, by relative path, exactly the
\* regular files of the source, each under the directories it has in the
\* source; and at no point of the copy does the destination hold a file the
\* source does not.
C12_CopyKeepsRelativePaths ==
    /\ RegularFiles(dest) \subseteq RegularFiles(source)
    /\ \A p \in DOMAIN dest : dest[p] \in {"file", "dir"}
    /\ cstate = "done" =>
        /\ copyerr = NoErr
        /\ RegularFiles(dest) = RegularFiles(source)
        /\ \A p \in RegularFiles(dest) : \A q \in Above(p) : q \in DOMAIN dest /\ dest[q] = "dir"

\* The copy of a tree with the regular files a/b.txt and a/c/d.txt and a file
\* that is not regular has returned.
C12_Witness ==
    /\ cstate = "done"
    /\ <<"a", "c", "d.txt">> \in RegularFiles(source)
    /\ <<"a", "b.txt">> \in RegularFiles(source)
    /\ \E p \in DOMAIN source : source[p] = "other"

\* ---- C13
\* The names of the Tables of a returned Schema, in their order.
TableNames(schema) == [k \in DOMAIN schema.Tables |-> schema.Tables[k].Name]

\* The tables of schema s among the rows of the tables query that the filter
\* lets through.
SeededTables(s) ==
    {tables[i].TableName : i \in {j \in DOMAIN tables :
        tables[j].TableSchema = s /\ filterTables(flt, s, tables[j].TableName)}}

\* C13: the returned model has one Schema per requested schema name, and the
\* Tables of each are, without repetition, exactly the tables that the tables
\* query delivered for that schema and the filter lets through, whether or
\* not a column row exists for them and however often the query delivered
\* them; a row of a schema that was not requested adds no Table.
C13_OneTablePerSurvivingPair ==
    Returned =>
        /\ [i \in DOMAIN res.Schemas |-> res.Schemas[i].Name] = schemaNames
        /\ \A i \in DOMAIN res.Schemas :
            /\ Range(TableNames(res.Schemas[i])) = SeededTables(res.Schemas[i].Name)
            /\ ~HasRepeat(TableNames(res.Schemas[i]))

\* The tables query delivered the same surviving pair twice and no column
\* row exists for it; the returned model has the table, without columns.
C13_Witness ==
    /\ Returned
    /\ Len(tables) = 2
    /\ tables[1] = tables[2]
    /\ \E st \in InfoTables(res) :
        /\ st[1] = tables[1].TableSchema
        /\ st[2].Name = tables[1].TableName
        /\ st[2].Columns = <<>>

\* ---- C14
\* The rows of the columns query for table t of schema s, in query order.
ColumnRowsOf(s, t) ==
    SelectSeq(columns, LAMBDA c : c.TableSchema = s /\ c.TableName = t)

\* C14: the Columns of every returned Table are the column rows of the
\* columns query for that table, converted, one column per row and in the
\* order of the query result.
C14_ColumnsInQueryOrder ==
    Returned =>
        \A st \in InfoTables(res) :
            /\ [k \in DOMAIN st[2].Columns |-> st[2].Columns[k].Orig]
                    = ColumnRowsOf(st[1], st[2].Name)
            /\ \A k \in DOMAIN st[2].Columns :
                    st[2].Columns[k].Name = st[2].Columns[k].Orig.ColumnName

\* A returned table with the columns name and id, delivered in that order.
C14_Witness ==
    /\ Returned
    /\ \E st \in InfoTables(res) :
        /\ Len(st[2].Columns) = 2
        /\ st[2].Columns[1].Name = "name"
        /\ st[2].Columns[2].Name = "id"

\* ---- C15
\* the calls of one function among the calls made so far
CallsOf(fns) == {i \in DOMAIN calls : calls[i].fn \in fns}

ConfigFailed == \E i \in CallsOf({"parseFile"}) : calls[i].err # NoErr
RunFns == {"run.Generate", "run.Preview"}
RunFailed == \E i \in CallsOf(RunFns) : calls[i].err # NoErr

\* C15: for gen and preview, the run is called only after parseFile has
\* succeeded, and it is the run of the command; once the configuration has
\* failed the run is never called and the command returns an error with code
\* 2; when the run fails the command returns an error with code 1; and the
\* command returns nil exactly when both calls were made and succeeded.
C15_FailureCarriesExitCode ==
    cmd \in {"gen", "preview"} =>
        /\ \A i \in CallsOf(RunFns) :
            /\ calls[i].fn = (IF cmd = "gen" THEN "run.Generate" ELSE "run.Preview")
            /\ \E j \in 1..(i - 1) : calls[j].fn = "parseFile" /\ calls[j].err = NoErr
        /\ ConfigFailed => CallsOf(RunFns) = {} /\ cpc = "returned"
        /\ cpc = "returned" =>
            /\ ret # NoRet
            /\ ConfigFailed => ret # NilRet /\ ret.code = 2
            /\ RunFailed => ret # NilRet /\ ret.code = 1
            /\ ret # NilRet => ret.code # 0 /\ ret.error # NoErr
            /\ ret = NilRet <=>
                    /\ CallsOf({"parseFile"}) # {} /\ ~ConfigFailed
                    /\ CallsOf(RunFns) # {} /\ ~RunFailed
        /\ cpc # "returned" => ret = NoRet

\* gen has read its configuration, run.Generate has failed, and gen has
\* returned.
C15_Witness ==
    /\ cmd = "gen"
    /\ cpc = "returned"
    /\ Len(calls) = 2
    /\ RunFailed
    /\ ret = codeErr("run failed", 1)

\* ---- C16
\* C16: init leaves every file that existed as it was; it calls createFile
\* for gnorm.toml, table.gotmpl, schema.gotmpl, enum.gotmpl in that order;
\* only its last call can have failed, and then init has returned an error
\* with code 1; the files it has not come to are as they were, the files it
\* has created hold their contents, and it returns nil only after all four.
C16_InitKeepsExistingFiles ==
    cmd = "init" =>
        /\ \A n \in DOMAIN cwd : cwdBefore[n] # NoFile => cwd[n] = cwdBefore[n]
        /\ Len(calls) <= Len(InitFiles)
        /\ \A i \in DOMAIN calls :
            /\ calls[i].fn = "createFile" /\ calls[i].arg = InitFiles[i]
            /\ cwdBefore[InitFiles[i]] # NoFile => calls[i].err # NoErr
            /\ calls[i].err = NoErr => cwd[InitFiles[i]] = initContents(InitFiles[i])
            /\ calls[i].err # NoErr =>
                    /\ i = Len(calls)
                    /\ cpc = "returned"
                    /\ ret = codeErr(calls[i].err, 1)
        /\ \A i \in (Len(calls) + 1)..Len(InitFiles) : cwd[InitFiles[i]] = cwdBefore[InitFiles[i]]
        /\ ret = NilRet <=>
                /\ Len(calls) = Len(InitFiles)
                /\ \A i \in DOMAIN calls : calls[i].err = NoErr
        /\ cpc = "returned" <=> ret # NoRet

\* init has created gnorm.toml and table.gotmpl, has failed on a
\* schema.gotmpl that existed, and has returned; enum.gotmpl does not exist.
C16_Witness ==
    /\ cmd = "init"
    /\ cpc = "returned"
    /\ Len(calls) = 3
    /\ cwdBefore = [n \in Range(InitFiles) |-> IF n = "schema.gotmpl" THEN "old" ELSE NoFile]
    /\ cwd["gnorm.toml"] = "sample"
    /\ cwd["table.gotmpl"] = "{{.Name}}"
    /\ cwd["schema.gotmpl"] = "old"
    /\ cwd["enum.gotmpl"] = NoFile
    /\ ret = codeErr("file exists", 1)

====
